---------------------------- MODULE Spec2Model ----------------------------
(***************************************************************************)
(* Banyai-Koch dielectric function (dielectric_Banyai_Koch.py).            *)
(*                                                                         *)
(* The functions of the module are operators over NumPy-like arrays: an   *)
(* array is a shape plus one element per index tuple, and every array     *)
(* operation (broadcasting, reshape, squeeze, repeat, boolean-mask        *)
(* assignment, nanprod, nansum) is computed as NumPy computes it.         *)
(* Elements carry an IEEE-like extended rational (finite, +/-inf, nan)    *)
(* and the set of caller input elements they were computed from.          *)
(***************************************************************************)
EXTENDS Integers, Sequences, FiniteSets, TLC

VARIABLES call, pc, args, loc, ret, err

vars == <<call, pc, args, loc, ret, err>>

--------------------------------------------------------------------------
(* Bounds of the model.                                                    *)

\* an axis of an input array has length 1 or MaxLen
MaxLen == 2
\* nmax, the truncation order of the Coulomb product, ranges over 1..MaxN
MaxN == 2
\* xnum, the number of integration samples
XNum == 2

--------------------------------------------------------------------------
(* Extended rationals: float64 values as exact fractions with the IEEE     *)
(* special values.  The sign of a zero is not tracked: it only decides    *)
(* the sign of an infinity, and both infinities are treated alike by      *)
(* every consumer in this module.                                         *)

Abs(x) == IF x < 0 THEN -x ELSE x

Sign(x) == IF x < 0 THEN -1 ELSE IF x > 0 THEN 1 ELSE 0

RECURSIVE GCD(_, _)
GCD(a, b) == IF b = 0 THEN a ELSE GCD(b, a % b)

Fin(n, d) ==
    LET g == GCD(Abs(n), Abs(d))
        s == IF d < 0 THEN -1 ELSE 1
    IN  [t |-> "fin", n |-> (s * n) \div g, d |-> (s * d) \div g]

I(x) == [t |-> "fin", n |-> x, d |-> 1]

Inf(s) == [t |-> "inf", n |-> IF s < 0 THEN -1 ELSE 1, d |-> 0]

NaN == [t |-> "nan", n |-> 0, d |-> 0]

\* a float whose value the model does not track (a caller's energy,
\* linewidth or temperature, a physical constant, a sqrt, a log, a tanh):
\* it may be any float, so every operation on it is untracked as well
Unk == [t |-> "any", n |-> 0, d |-> 0]

IsFinite(x) == x.t = "fin"

IsZero(x) == x.t = "fin" /\ x.n = 0

RNeg(x) == IF x.t = "fin" \/ x.t = "inf" THEN [x EXCEPT !.n = -x.n] ELSE x

RAdd(x, y) ==
    IF x.t = "any" \/ y.t = "any" THEN Unk
    ELSE IF x.t = "nan" \/ y.t = "nan" THEN NaN
    ELSE IF x.t = "inf" /\ y.t = "inf"
         THEN IF x.n = y.n THEN x ELSE NaN
    ELSE IF x.t = "inf" THEN x
    ELSE IF y.t = "inf" THEN y
    ELSE Fin(x.n * y.d + y.n * x.d, x.d * y.d)

RSub(x, y) == RAdd(x, RNeg(y))

RMul(x, y) ==
    IF x.t = "any" \/ y.t = "any" THEN Unk
    ELSE IF x.t = "nan" \/ y.t = "nan" THEN NaN
    ELSE IF x.t = "inf" \/ y.t = "inf"
         THEN IF IsZero(x) \/ IsZero(y) THEN NaN
              ELSE Inf(Sign(x.n) * Sign(y.n))
    ELSE Fin(x.n * y.n, x.d * y.d)

RDiv(x, y) ==
    IF x.t = "any" \/ y.t = "any" THEN Unk
    ELSE IF x.t = "nan" \/ y.t = "nan" THEN NaN
    ELSE IF x.t = "inf"
         THEN IF y.t = "inf" THEN NaN
              ELSE Inf(x.n * (IF y.n < 0 THEN -1 ELSE 1))
    ELSE IF y.t = "inf" THEN I(0)
    ELSE IF y.n = 0
         THEN IF x.n = 0 THEN NaN ELSE Inf(Sign(x.n))
    ELSE Fin(x.n * y.d, x.d * y.n)

RSq(x) == RMul(x, x)

\* |x| >= |y| as the float comparison (false when either is nan).  It only
\* selects the branch of the complex division; with an untracked operand
\* both branches give an untracked quotient.
RAbsGE(x, y) ==
    IF x.t = "any" \/ y.t = "any" THEN TRUE
    ELSE IF x.t = "nan" \/ y.t = "nan" THEN FALSE
    ELSE IF x.t = "inf" THEN TRUE
    ELSE IF y.t = "inf" THEN FALSE
    ELSE Abs(x.n) * y.d >= Abs(y.n) * x.d

\* x < y for tracked finite values
RLt(x, y) == x.n * y.d < y.n * x.d

\* int(sqrt(x)) for a finite x >= 0: the truncated square root
FloorSqrt(x) ==
    CHOOSE l \in 0..x.n : l * l * x.d <= x.n /\ (l + 1) * (l + 1) * x.d > x.n

--------------------------------------------------------------------------
(* Complex values (re + i im) * pi^pie.  The power of pi is kept as an     *)
(* exponent so that A / np.pi and np.pi * L(...) stay exact.               *)

Cx(re, im, pie) == [re |-> re, im |-> im, pie |-> pie]

\* a float promoted to complex, as NumPy does in a mixed operation
CFromR(x) == Cx(x, I(0), 0)

CIsZero(a) == IsZero(a.re) /\ IsZero(a.im)

\* np.isnan of a complex: either part is nan
CIsNaN(a) == a.re.t = "nan" \/ a.im.t = "nan"

CIsFinite(a) == IsFinite(a.re) /\ IsFinite(a.im)

CAdd(a, b) ==
    CASE CIsZero(b) -> a
      [] CIsZero(a) -> b
      [] a.pie = b.pie -> Cx(RAdd(a.re, b.re), RAdd(a.im, b.im), a.pie)

CMul(a, b) ==
    Cx(RSub(RMul(a.re, b.re), RMul(a.im, b.im)),
       RAdd(RMul(a.re, b.im), RMul(a.im, b.re)),
       a.pie + b.pie)

\* NumPy's complex division loop (Smith's method)
CDiv(a, b) ==
    IF RAbsGE(b.re, b.im)
    THEN IF IsZero(b.re) /\ IsZero(b.im)
         THEN Cx(RDiv(a.re, I(0)), RDiv(a.im, I(0)), a.pie - b.pie)
         ELSE LET rat == RDiv(b.im, b.re)
                  scl == RDiv(I(1), RAdd(b.re, RMul(b.im, rat)))
              IN  Cx(RMul(RAdd(a.re, RMul(a.im, rat)), scl),
                     RMul(RSub(a.im, RMul(a.re, rat)), scl),
                     a.pie - b.pie)
    ELSE LET rat == RDiv(b.re, b.im)
             scl == RDiv(I(1), RAdd(b.im, RMul(b.re, rat)))
         IN  Cx(RMul(RAdd(RMul(a.re, rat), a.im), scl),
                RMul(RSub(RMul(a.im, rat), a.re), scl),
                a.pie - b.pie)

\* np.pi as a complex operand
CPi == Cx(I(1), I(0), 1)

--------------------------------------------------------------------------
(* Arrays: [ok, shape, val].  shape is a sequence of axis lengths, val     *)
(* maps every index tuple (1-based) to an element.  An operation whose    *)
(* operands cannot be broadcast yields Bad, the raised ValueError.        *)

RECURSIVE Idx(_)
Idx(s) ==
    IF Len(s) = 0 THEN {<<>>}
    ELSE {<<h>> \o t : h \in 1..Head(s), t \in Idx(Tail(s))}

RECURSIVE SizeOf(_)
SizeOf(s) == IF Len(s) = 0 THEN 1 ELSE Head(s) * SizeOf(Tail(s))

\* C-order position of index i in an array of shape s, from 0
RECURSIVE Flat(_, _)
Flat(i, s) ==
    IF Len(s) = 0 THEN 0
    ELSE (i[1] - 1) * SizeOf(Tail(s)) + Flat(Tail(i), Tail(s))

\* shape \o <<>> is shape and val @@ <<>> is val, written out element by element
Arr(shape, val) ==
    [ok |-> TRUE, shape |-> shape \o <<>>, val |-> val @@ <<>>]

Bad == [ok |-> FALSE, shape |-> <<>>, val |-> <<>>]

Ones(k) == [a \in 1..k |-> 1]

\* s with 1s prepended up to D axes (broadcasting aligns shapes at the right)
Pad(s, D) == [a \in 1..D |-> IF a <= D - Len(s) THEN 1 ELSE s[a - (D - Len(s))]]

MaxNat(x, y) == IF x >= y THEN x ELSE y

BC(s, t) ==
    LET D == MaxNat(Len(s), Len(t))
    IN  \A a \in 1..D : \/ Pad(s, D)[a] = Pad(t, D)[a]
                        \/ Pad(s, D)[a] = 1
                        \/ Pad(t, D)[a] = 1

BShape(s, t) ==
    LET D == MaxNat(Len(s), Len(t))
    IN  [a \in 1..D |-> IF Pad(s, D)[a] = 1 THEN Pad(t, D)[a] ELSE Pad(s, D)[a]]

\* the index of an operand of shape s that a result index i reads
Pr(i, s) == [a \in 1..Len(s) |-> IF s[a] = 1 THEN 1 ELSE i[a + Len(i) - Len(s)]]

At(A, i) == A.val[Pr(i, A.shape)]

Map1(F(_), A) ==
    IF ~A.ok THEN Bad
    ELSE Arr(A.shape, [i \in Idx(A.shape) |-> F(A.val[i])])

Map2(F(_, _), A, B) ==
    IF ~A.ok \/ ~B.ok THEN Bad
    ELSE IF ~BC(A.shape, B.shape) THEN Bad
    ELSE LET S == BShape(A.shape, B.shape)
         IN  Arr(S, [i \in Idx(S) |-> F(At(A, i), At(B, i))])

\* np.reshape(arr, arr.shape + (1,) * k)
ExpandTail(A, k) ==
    IF ~A.ok THEN Bad
    ELSE LET S == A.shape \o Ones(k)
         IN  Arr(S, [i \in Idx(S) |-> A.val[SubSeq(i, 1, Len(A.shape))]])

\* np.squeeze: every axis of length 1 is removed
SqShape(s) == SelectSeq(s, LAMBDA x : x # 1)

Unsq(j, s) ==
    [a \in 1..Len(s) |->
        IF s[a] = 1 THEN 1 ELSE j[Cardinality({b \in 1..a : s[b] # 1})]]

Squeeze(A) ==
    IF ~A.ok THEN Bad
    ELSE LET S == SqShape(A.shape)
         IN  Arr(S, [j \in Idx(S) |-> A.val[Unsq(j, A.shape)]])

\* np.repeat(a, reps, axis): axis counted from 0
Repeat(A, reps, axis) ==
    LET S == [A.shape EXCEPT ![axis + 1] = @ * reps]
    IN  Arr(S, [i \in Idx(S) |->
                  A.val[[i EXCEPT ![axis + 1] = ((@ - 1) \div reps) + 1]]])

\* arr[None,...,:,...,None]: a 1-D array laid along axis (from 0) of nd axes
Along(A, axis, nd) ==
    LET S == [a \in 1..nd |-> IF a = axis + 1 THEN A.shape[1] ELSE 1]
    IN  Arr(S, [i \in Idx(S) |-> A.val[<<i[axis + 1]>>]])

Map3(F(_, _, _), A, B, C) ==
    IF ~A.ok \/ ~B.ok \/ ~C.ok THEN Bad
    ELSE IF ~BC(A.shape, B.shape) THEN Bad
    ELSE IF ~BC(BShape(A.shape, B.shape), C.shape) THEN Bad
    ELSE LET S == BShape(BShape(A.shape, B.shape), C.shape)
         IN  Arr(S, [i \in Idx(S) |-> F(At(A, i), At(B, i), At(C, i))])

Map4(F(_, _, _, _), A, B, C, D) ==
    IF ~A.ok \/ ~B.ok \/ ~C.ok \/ ~D.ok THEN Bad
    ELSE IF ~BC(A.shape, B.shape) THEN Bad
    ELSE IF ~BC(BShape(A.shape, B.shape), C.shape) THEN Bad
    ELSE IF ~BC(BShape(BShape(A.shape, B.shape), C.shape), D.shape) THEN Bad
    ELSE LET S == BShape(BShape(BShape(A.shape, B.shape), C.shape), D.shape)
         IN  Arr(S, [i \in Idx(S) |->
                       F(At(A, i), At(B, i), At(C, i), At(D, i))])

\* the elements a reduction over axis ax (from 1) folds into result index i
Lane(A, i, ax) == [j \in 1..A.shape[ax] |-> A.val[[i EXCEPT ![ax] = j]]]

KeepDims(s, ax) == [s EXCEPT ![ax] = 1]

--------------------------------------------------------------------------
(* Elements: [v, p] for a real array, [c, p] for a complex one.  p is the  *)
(* set of caller input elements <<name, index>> the element was computed  *)
(* from.                                                                   *)

Re(v, p) == [v |-> v, p |-> p]

Co(c, p) == [c |-> c, p |-> p]

\* an element of an int array (np.arange), computed from no input
IntEl(k) == Re(I(k), {})

RECURSIVE UnionP(_, _)
UnionP(lane, m) == IF m = 0 THEN {} ELSE UnionP(lane, m - 1) \cup lane[m].p

--------------------------------------------------------------------------
(* L: the complex Lorentzian.                                              *)

\* A / np.pi / (E0 - E - 1j * G) + A0
L(E, E0, G, A, A0) ==
    CAdd(CDiv(Cx(A, I(0), -1), Cx(RSub(E0, E), RNeg(G), 0)), CFromR(A0))

--------------------------------------------------------------------------
(* bound_contribution and its helper methods.                              *)

\* np.sqrt(g).astype(int)
f1(g) == Re(I(FloorSqrt(g.v)), g.p)

\* np.pi * L(w + (1/ell - ell/g)**2, 0, G) * 2 * (g - ell**2)
\*     * (2 * ell**2 - g) / (ell**3 * g**2), evaluated left to right
f2(w, g, G, ell) ==
    LET E  == RAdd(w.v, RSq(RSub(RDiv(I(1), ell.v), RDiv(ell.v, g.v))))
        t1 == CMul(CPi, L(E, I(0), G.v, I(1), I(0)))
        t2 == CMul(t1, CFromR(I(2)))
        t3 == CMul(t2, CFromR(RSub(g.v, RSq(ell.v))))
        t4 == CMul(t3, CFromR(RSub(RMul(I(2), RSq(ell.v)), g.v)))
        t5 == CDiv(t4, CFromR(RMul(RMul(RSq(ell.v), ell.v), RSq(g.v))))
    IN  Co(t5, w.p \cup g.p \cup G.p \cup ell.p)

\* out = np.ones(ell.shape); out[ell == 0] = 0
f3(ell) == Re(IF IsZero(ell.v) THEN I(0) ELSE I(1), ell.p)

\* n**2 * (n**2 * ell**2 - (g - ell**2)**2)
\*     / ((n**2 - ell**2) * (n**2 * ell**2 - g**2))
f4raw(g, ell, n) ==
    LET n2  == RSq(n.v)
        l2  == RSq(ell.v)
        num == RMul(n2, RSub(RMul(n2, l2), RSq(RSub(g.v, l2))))
        den == RMul(RSub(n2, l2), RSub(RMul(n2, l2), RSq(g.v)))
    IN  Re(RDiv(num, den), g.p \cup ell.p \cup n.p)

\* out[out == -np.inf] = np.nan; out[out == np.inf] = np.nan
InfToNaN(x) == IF x.v.t = "inf" THEN Re(NaN, x.p) ELSE x

f4(g, ell, n) == InfToNaN(f4raw(g, ell, n))

\* np.nanprod(out, axis=-1, keepdims=True): a nan counts as 1
RECURSIVE NanProdLane(_, _)
NanProdLane(lane, m) ==
    IF m = 0 THEN I(1)
    ELSE RMul(NanProdLane(lane, m - 1),
              IF lane[m].v.t = "nan" THEN I(1) ELSE lane[m].v)

NanProd(A) ==
    LET ax == Len(A.shape)
        S  == KeepDims(A.shape, ax)
    IN  Arr(S, [i \in Idx(S) |->
                  Re(NanProdLane(Lane(A, i, ax), A.shape[ax]),
                     UnionP(Lane(A, i, ax), A.shape[ax]))])

\* np.sum in place of np.nansum: a nan is summed like any value.  With it
\* C7_ResultFinite fails.
RECURSIVE SumLane(_, _)
SumLane(lane, m) ==
    IF m = 0 THEN CFromR(I(0))
    ELSE CAdd(SumLane(lane, m - 1), lane[m].c)

\* np.nansum(out, axis=-2, keepdims=True): a nan counts as 0
RECURSIVE NanSumLane(_, _)
NanSumLane(lane, m) ==
    IF m = 0 THEN CFromR(I(0))
    ELSE CAdd(NanSumLane(lane, m - 1),
              IF CIsNaN(lane[m].c) THEN CFromR(I(0)) ELSE lane[m].c)

NanSum(A) ==
    LET ax == Len(A.shape) - 1
        S  == KeepDims(A.shape, ax)
    IN  Arr(S, [i \in Idx(S) |->
                  Co(NanSumLane(Lane(A, i, ax), A.shape[ax]),
                     UnionP(Lane(A, i, ax), A.shape[ax]))])

\* the assert of _checkndim_copy_reshape: arr.ndim == arrs[0].ndim
checkndim(arrs) ==
    \A k \in 1..Len(arrs) : Len(arrs[k].shape) = Len(arrs[1].shape)

\* the largest element of a real array (np.max)
MaxEl(A) ==
    CHOOSE x \in {A.val[i].v : i \in Idx(A.shape)} :
        \A i \in Idx(A.shape) : ~RLt(x, A.val[i].v)

\* ellmax = int(np.max(np.sqrt(g)))
ellmaxOf(g) == FloorSqrt(MaxEl(g))

\* ell_base = np.arange(1, ellmax + 1, 1) reshaped to
\* (1,) * ndim_org + (ell_base.size,) + (1,), then np.repeat(.., g.size, axis=1)
ell_repeat(g, ndim_org) ==
    LET S    == Ones(ndim_org) \o <<ellmaxOf(g), 1>>
        base == Arr(S, [i \in Idx(S) |-> IntEl(i[ndim_org + 1])])
    IN  Repeat(base, SizeOf(g.shape), 1)

\* f1(g) <= ell in place of f1(g) < ell: the index floor(sqrt(g)) is zeroed
\* as well.  With it C9_LadderIndices fails.
ell_mask_le(g, ell) ==
    Map2(LAMBDA a, b : [v |-> ~RLt(b.v, a.v), p |-> a.p \cup b.p],
         Map1(f1, g), ell)

\* the boolean array f1(g) < ell
ell_mask(g, ell) ==
    Map2(LAMBDA a, b : [v |-> RLt(a.v, b.v), p |-> a.p \cup b.p],
         Map1(f1, g), ell)

\* ell[mask] = 0
ell_zeroed(ell, mask) ==
    Arr(ell.shape, [i \in Idx(ell.shape) |->
                      Re(IF mask.val[i].v THEN I(0) ELSE ell.val[i].v,
                         ell.val[i].p \cup mask.val[i].p)])

\* n = np.arange(1, nmax + 1, 1) reshaped to (1,) * (ndim_org + 1) + n.shape
n_array(nmax, ndim_org) ==
    LET S == Ones(ndim_org + 1) \o <<nmax>>
    IN  Arr(S, [i \in Idx(S) |-> IntEl(i[ndim_org + 2])])

\* out * f2(w, g, G, ell) * f3(ell)
summand_array(prod, w, g, G, ell) ==
    Map2(LAMBDA a, b : Co(CMul(a.c, CFromR(b.v)), a.p \cup b.p),
         Map2(LAMBDA a, b : Co(CMul(CFromR(a.v), b.c), a.p \cup b.p),
              prod, Map4(f2, w, g, G, ell)),
         Map1(f3, ell))

NoLocals == [ell |-> Bad, fac |-> Bad, summand |-> Bad]

Raised(e) == [err |-> e, out |-> Bad, loc |-> NoLocals]

\* out.squeeze() if squeeze, else out
squeezed(out, squeeze) == IF squeeze THEN Squeeze(out) ELSE out

\* np.nansum(out, axis=-2, keepdims=True) and the return
bound_summed(ell, fac, smd, squeeze) ==
    IF ~smd.ok THEN Raised("ValueError")
    ELSE [err |-> "", out |-> squeezed(NanSum(smd), squeeze),
          loc |-> [ell |-> ell, fac |-> fac, summand |-> smd]]

\* out = np.nanprod(f4(g, ell, n)); out = out * f2(w, g, G, ell) * f3(ell)
bound_factor(w, g, G, ell, fac, squeeze) ==
    bound_summed(ell, fac, summand_array(NanProd(fac), w, g, G, ell), squeeze)

\* ell[f1(g) < ell] = 0: the mask must have the shape of ell
bound_masked(w, g, G, ell0, mask, nmax, ndim_org, squeeze) ==
    IF ~mask.ok THEN Raised("ValueError")
    ELSE IF mask.shape # ell0.shape THEN Raised("IndexError")
    ELSE bound_factor(w, g, G, ell_zeroed(ell0, mask),
                      Map3(f4, g, ell_zeroed(ell0, mask),
                           n_array(nmax, ndim_org)),
                      squeeze)

bound_ell(w, g, G, ell0, nmax, ndim_org, squeeze) ==
    bound_masked(w, g, G, ell0, ell_mask(g, ell0), nmax, ndim_org, squeeze)

\* bound_contribution(w, g, G, nmax, squeeze): the raised exception or the
\* returned array, with the local arrays ell, f4(g, ell, n) and the summand
bound_contribution(w0, g0, G0, nmax, squeeze) ==
    IF ~checkndim(<<w0, g0, G0>>) THEN Raised("AssertionError")
    ELSE bound_ell(ExpandTail(w0, 2), ExpandTail(g0, 2), ExpandTail(G0, 2),
                   ell_repeat(ExpandTail(g0, 2), Len(w0.shape)),
                   nmax, Len(w0.shape), squeeze)

--------------------------------------------------------------------------
(* continuum_contribution.  Its values (np.sqrt, np.trapz) are not         *)
(* tracked: every element is untracked and carries only its provenance.      *)

Join2(a, b) == Re(Unk, a.p \cup b.p)

Join3(a, b, c) == Re(Unk, a.p \cup b.p \cup c.p)

\* a reduction over axis ax (from 1) whose value is not tracked
ReduceKeep(A, ax) ==
    IF ~A.ok THEN Bad
    ELSE LET S == KeepDims(A.shape, ax)
         IN  Arr(S, [i \in Idx(S) |->
                       Re(Unk, UnionP(Lane(A, i, ax), A.shape[ax]))])

\* the same reduction without keepdims: axis ax is removed
DropAxis(A, ax) ==
    IF ~A.ok THEN Bad
    ELSE LET S == [a \in 1..(Len(A.shape) - 1) |->
                     IF a < ax THEN A.shape[a] ELSE A.shape[a + 1]]
         IN  Arr(S, [i \in Idx(S) |->
                       A.val[[a \in 1..Len(A.shape) |->
                                IF a < ax THEN i[a]
                                ELSE IF a = ax THEN 1 ELSE i[a - 1]]]])

\* a reduction over the last axis, keepdims=True
ReduceLast(A) == ReduceKeep(A, Len(A.shape))

\* np.trapz(arr, dx=dx, axis=-2)
Trapz(A) == DropAxis(ReduceKeep(A, Len(A.shape) - 1), Len(A.shape) - 1)

\* x = np.linspace(0, xmax, xnum) reshaped to (1,) * w.ndim + x.shape + (1,)
x_array(xnum, nd) ==
    Arr(Ones(nd) \o <<xnum, 1>>,
        [i \in Idx(Ones(nd) \o <<xnum, 1>>) |-> Re(Unk, {})])

continuum_out(out, squeeze) ==
    IF ~out.ok THEN Raised("ValueError")
    ELSE [err |-> "", out |-> squeezed(out, squeeze), loc |-> NoLocals]

\* coul_enhnc = 1 + (2*g*n**2 - g**2) / ((n**2 - g)**2 + n**2 * g**2 * x),
\* np.prod over the last axis; arr = np.sqrt(x) * coul_enhnc * L(w - x, 0, G)
continuum_integrand(w, g, G, x, n, squeeze) ==
    continuum_out(Trapz(Map2(Join2,
                             Map2(Join2, x, ReduceLast(Map3(Join3, g, n, x))),
                             Map2(Join2, Map2(Join2, w, x), G))),
                  squeeze)

\* x and n are laid out with the ndim of w after its reshape
continuum_reshaped(w, g, G, xnum, nmax, squeeze) ==
    continuum_integrand(w, g, G, x_array(xnum, Len(w.shape)),
                        n_array(nmax, Len(w.shape)), squeeze)

continuum_contribution(w0, g0, G0, xnum, nmax, squeeze) ==
    IF ~checkndim(<<w0, g0, G0>>) THEN Raised("AssertionError")
    ELSE continuum_reshaped(ExpandTail(w0, 2), ExpandTail(g0, 2),
                            ExpandTail(G0, 2), xnum, nmax, squeeze)

--------------------------------------------------------------------------
(* Direct calls of bound_contribution and continuum_contribution.          *)

Raise(e) ==
    /\ pc' = "raised"
    /\ err' = e
    /\ UNCHANGED <<call, args, loc, ret>>

Lens == {1, MaxLen}

Shapes(d) == [1..d -> Lens]

\* an input array: element f (in C order) has value V(f) and is its own source
Input(name, shape, V(_)) ==
    Arr(shape, [i \in Idx(shape) |-> Re(V(Flat(i, shape)), {<<name, i>>})])

\* screening parameters g >= 1 the grids are filled from
GSeq == <<I(1), I(4), I(2), Fin(3, 2), I(6)>>

GAt(start, f) == GSeq[((start + f) % Len(GSeq)) + 1]

InitBound ==
    \E d \in {1, 2}, c \in {"bound_contribution", "continuum_contribution"} :
    \E ws \in Shapes(d), gs \in Shapes(d), Gs \in Shapes(d) :
    \E start \in 0..(Len(GSeq) - 1), nmax \in 1..MaxN, sq \in BOOLEAN :
        /\ call = c
        /\ pc = "start"
        /\ args = [w |-> Input("w", ws, LAMBDA f : I(f - 1)),
                   g |-> Input("g", gs, LAMBDA f : GAt(start, f)),
                   G |-> Input("G", Gs, LAMBDA f : I(f + 1)),
                   nmax |-> nmax, xnum |-> XNum, squeeze |-> sq]
        /\ loc = NoLocals
        /\ ret = Bad
        /\ err = ""

Return(r) ==
    IF r.err # "" THEN Raise(r.err)
    ELSE /\ pc' = "done"
         /\ ret' = r.out
         /\ loc' = r.loc
         /\ UNCHANGED <<call, args, err>>

BoundCall ==
    /\ call = "bound_contribution"
    /\ pc = "start"
    /\ Return(bound_contribution(args.w, args.g, args.G, args.nmax,
                                 args.squeeze))

ContinuumCall ==
    /\ call = "continuum_contribution"
    /\ pc = "start"
    /\ Return(continuum_contribution(args.w, args.g, args.G, args.xnum,
                                     args.nmax, args.squeeze))

NextBound ==
    \/ BoundCall
    \/ ContinuumCall

SpecBound == InitBound /\ [][NextBound]_vars

--------------------------------------------------------------------------
(* The unit-reduction helpers, elementwise over broadcast arrays.  Only g   *)
(* is tracked as a number: the control flow reads nothing else.           *)

Same1(a) == Re(Unk, a.p)

Join4(a, b, c, d) == Re(Unk, a.p \cup b.p \cup c.p \cup d.p)

\* 12 / (np.pi ** 2 * a0 * k).  The elements of k hold pi^2 * k, so that g is
\* an exact fraction.
g_from_ak(a0, k) ==
    Map2(LAMBDA a, b : Re(RDiv(I(12), RMul(a.v, b.v)), a.p \cup b.p), a0, k)

\* me_star * mh_star / (me_star + mh_star)
m_star_calc(me_star, mh_star) == Map2(Join2, me_star, mh_star)

\* hbar_Js ** 2 / (2 * m * a0 ** 2) * J_to_eV
ER_exciton(a0_exc, m_star) == Map2(Join2, a0_exc, m_star)

\* Eg0 + ER * (-1 + (1 - 1 / g) ** 2), the bound=True branch
Eg_from_g(Eg0, ER, g) == Map3(Join3, Eg0, ER, g)

\* G / ER
G_to_Gbar(G, ER) == Map2(Join2, G, ER)

\* T * kb / ER
T_to_Tbar(T, ER) == Map2(Join2, T, ER)

\* (E - Eg) / ER
E_to_wbar(E, Eg, ER) == Map2(Join2, Map2(Join2, E, Eg), ER)

\* rcv ** 2 / (2 * np.pi * a0 ** 3 * ER)
dielectric_prefactor(rcv, a0, ER) == Map3(Join3, rcv, a0, ER)

\* (mu - Eg / 2) / (kb * T)
mubar(mu, Eg, T) == Map3(Join3, mu, Eg, T)

\* k_invm ** 2 * kb_J * T * mr_kg * a0_m / (4 * np.pi * hbar_Js ** 2) * 1e-27
n_cubic_array(a0, k, T, mr_star) == Map4(Join4, a0, k, T, mr_star)

\* n0 = n0_nm(T, m_alpha_star); nu = n / n0;
\* kb * T * (np.log(nu) + K1 * np.log(K2 * nu + 1) + K3 * nu)
mu_from_n(n, m_alpha_star, T) == Map3(Join3, n, m_alpha_star, T)

\* argument = wbar / Tbar - mubar_e - mubar_h; argument *= .5; np.tanh
band_filling_factor(wbar, Tbar, mubar_e, mubar_h) ==
    Map1(Same1, Map2(Join2, Map2(Join2, Map2(Join2, wbar, Tbar), mubar_e),
                     mubar_h))

\* the smallest element of a real array (g.min())
MinEl(A) ==
    CHOOSE x \in {A.val[i].v : i \in Idx(A.shape)} :
        \A i \in Idx(A.shape) : ~RLt(A.val[i].v, x)

\* g.max() in place of g.min().  With it C1_MottIffBelowOne fails.
mott_transition_max(g) == RLt(MaxEl(g), I(1))

\* if g.min() < 1: raise Exception("... this is a Mott transition")
mott_transition(g) == RLt(MinEl(g), I(1))

\* position f (in C order, from 0) of an array of shape s as an index tuple
RECURSIVE Unflat(_, _)
Unflat(f, s) ==
    IF Len(s) = 0 THEN <<>>
    ELSE <<(f \div SizeOf(Tail(s))) + 1>> \o Unflat(f % SizeOf(Tail(s)), Tail(s))

\* np.reshape(A, S): the elements in C order; ValueError when the sizes differ
Reshape(A, S) ==
    IF ~A.ok THEN Bad
    ELSE IF SizeOf(S) # SizeOf(A.shape) THEN Bad
    ELSE Arr(S, [i \in Idx(S) |-> A.val[Unflat(Flat(i, S), A.shape)]])

\* np.array([x]) of a number x
Boxed(x) == Arr(<<1>>, [i \in Idx(<<1>>) |-> x.val[<<>>]])

--------------------------------------------------------------------------
(* dielectric_microscopic, dielectric_simple and e_BK_broadcasted.         *)

\* the result of an arithmetic expression, or the ValueError of its broadcast
Checked(out) ==
    IF out.ok THEN [err |-> "", out |-> out]
    ELSE [err |-> "ValueError", out |-> Bad]

\* bf * (bound + continuum), or the exception one of the parts raised
combine(bf, bnd, cnt) ==
    IF ~bf.ok THEN [err |-> "ValueError", out |-> Bad]
    ELSE IF bnd.err # "" THEN [err |-> bnd.err, out |-> Bad]
    ELSE IF cnt.err # "" THEN [err |-> cnt.err, out |-> Bad]
    ELSE Checked(Map2(Join2, bf, Map2(Join2, bnd.out, cnt.out)))

\* reduced_dielectric: both contributions are squeezed
reduced_dielectric(wbar, g, Gbar, Tbar, mubar_e, mubar_h, xnum, nmax) ==
    combine(band_filling_factor(wbar, Tbar, mubar_e, mubar_h),
            bound_contribution(wbar, g, Gbar, nmax, TRUE),
            continuum_contribution(wbar, g, Gbar, xnum, nmax, TRUE))

\* pi^2 * k of the screening wavevectors the grids are filled from: with
\* a0 = 1 they give g = 1, 4, 2 and 12/13
KSeq == <<I(12), I(3), I(6), I(13)>>

KAt(start, f) == KSeq[((start + f) % Len(KSeq)) + 1]

\* a number passed by the caller
Scalar(name, v) == Arr(<<>>, [i \in Idx(<<>>) |-> Re(v, {<<name, i>>})])

OrchLocals ==
    [w |-> Bad, k |-> Bad, G |-> Bad, T |-> Bad,
     a0 |-> Bad, Eg0 |-> Bad, rcv |-> Bad, me_star |-> Bad, mh_star |-> Bad,
     g |-> Bad, ER |-> Bad, m_star |-> Bad, wbar |-> Bad, Gbar |-> Bad,
     Tbar |-> Bad, pre |-> Bad, mubar_e |-> Bad, mubar_h |-> Bad,
     bf |-> Bad, bound |-> Bad, continuum |-> Bad]

OrchArgs(ws, ks, Gs, Ts, start, sq) ==
    [w |-> Input("w", ws, LAMBDA f : Unk),
     k |-> Input("k", ks, LAMBDA f : KAt(start, f)),
     G |-> Input("G", Gs, LAMBDA f : Unk),
     T |-> Input("T", Ts, LAMBDA f : Unk),
     a0 |-> Scalar("a0", I(1)),
     Eg0 |-> Scalar("Eg0", Unk),
     rcv |-> Scalar("rcv", Unk),
     me_star |-> Scalar("me_star", Unk),
     mh_star |-> Scalar("mh_star", Unk),
     m_star |-> Scalar("m_star", Unk),
     mu_e |-> Scalar("mu_e", Unk),
     mu_h |-> Scalar("mu_h", Unk),
     xnum |-> XNum, nmax |-> MaxN, squeeze |-> sq]

\* the parameters of dielectric_simple as the caller passes them
SimpleParams(a) ==
    [OrchLocals EXCEPT !.w = a.w, !.k = a.k, !.G = a.G, !.T = a.T,
                       !.a0 = a.a0, !.Eg0 = a.Eg0, !.rcv = a.rcv,
                       !.me_star = a.me_star, !.mh_star = a.mh_star]

InitOrch ==
    \/ \E ws \in Shapes(1), ks \in Shapes(1), Gs \in Shapes(1), Ts \in Shapes(1) :
       \E start \in 0..(Len(KSeq) - 1), sq \in BOOLEAN :
           /\ call = "e_BK_broadcasted"
           /\ pc = "start"
           /\ args = OrchArgs(ws, ks, Gs, Ts, start, sq)
           /\ loc = OrchLocals
           /\ ret = Bad
           /\ err = ""
    \/ \E ws \in Shapes(2), ks \in Shapes(2), Gs \in Shapes(2) :
       \E Ts \in Shapes(1) \cup Shapes(2) \cup Shapes(3), start \in 0..(Len(KSeq) - 1) :
           /\ call = "dielectric_simple"
           /\ pc = "simple"
           /\ args = OrchArgs(ws, ks, Gs, Ts, start, FALSE)
           /\ loc = SimpleParams(args)
           /\ ret = Bad
           /\ err = ""
    \/ \E ws \in Shapes(2), ks \in Shapes(2), Gs \in Shapes(2), Ts \in Shapes(2) :
       \E start \in 0..(Len(KSeq) - 1) :
           /\ call = "dielectric_microscopic"
           /\ pc = "micro"
           /\ args = OrchArgs(ws, ks, Gs, Ts, start, FALSE)
           /\ loc = OrchLocals
           /\ ret = Bad
           /\ err = ""

Goto(p, l) ==
    /\ pc' = p
    /\ loc' = l
    /\ UNCHANGED <<call, args, ret, err>>

\* e_BK_broadcasted: w[:, None, None, None] ..., params_arr, the call
BKReshape ==
    /\ call = "e_BK_broadcasted"
    /\ pc = "start"
    /\ Goto("simple",
            [OrchLocals EXCEPT !.w = Along(args.w, 0, 4),
                               !.k = Along(args.k, 1, 4),
                               !.G = Along(args.G, 2, 4),
                               !.T = Along(args.T, 3, 4),
                               !.a0 = Boxed(args.a0),
                               !.Eg0 = Boxed(args.Eg0),
                               !.rcv = Boxed(args.rcv),
                               !.me_star = Boxed(args.me_star),
                               !.mh_star = Boxed(args.mh_star)])

\* dielectric_simple: g, m_star, ER and the Mott check
SimpleReduce ==
    /\ call \in {"e_BK_broadcasted", "dielectric_simple"}
    /\ pc = "simple"
    /\ LET g      == g_from_ak(loc.a0, loc.k)
           m_star == m_star_calc(loc.me_star, loc.mh_star)
       IN  IF mott_transition(g) THEN Raise("Mott")
           ELSE Goto("units", [loc EXCEPT !.g = g, !.m_star = m_star,
                                          !.ER = ER_exciton(loc.a0, m_star)])

\* dielectric_simple: Eg .. pre, n_nm, mu_e, mu_h, mubar_e, mubar_h
SimpleUnits ==
    /\ pc = "units"
    /\ LET Eg   == Eg_from_g(loc.Eg0, loc.ER, loc.g)
           n_nm == n_cubic_array(loc.a0, loc.k, loc.T, loc.m_star)
           mu_e == mu_from_n(n_nm, loc.me_star, loc.T)
           mu_h == mu_from_n(n_nm, loc.mh_star, loc.T)
           l2   == [loc EXCEPT !.Gbar = G_to_Gbar(loc.G, loc.ER),
                               !.Tbar = T_to_Tbar(loc.T, loc.ER),
                               !.wbar = E_to_wbar(loc.w, Eg, loc.ER),
                               !.pre = dielectric_prefactor(loc.rcv, loc.a0,
                                                            loc.ER),
                               !.mubar_e = mubar(mu_e, Eg, loc.T),
                               !.mubar_h = mubar(mu_h, Eg, loc.T)]
       IN  IF \E f \in {"Gbar", "Tbar", "wbar", "pre", "mubar_e", "mubar_h"} :
                 ~l2[f].ok
           THEN Raise("ValueError")
           ELSE Goto("parts", l2)

\* squeeze=False in place of squeeze=True.  With it C10_LoopTerminates fails.
SimpleNoSqueeze == FALSE

\* the squeeze argument dielectric_simple passes to both contributions
SimpleSqueeze == TRUE

SimplePartsDone(bf, bnd, cnt) ==
    IF ~bf.ok THEN Raise("ValueError")
    ELSE IF bnd.err # "" THEN Raise(bnd.err)
    ELSE IF cnt.err # "" THEN Raise(cnt.err)
    ELSE Goto("loop", [loc EXCEPT !.bf = bf, !.bound = bnd.out,
                                  !.continuum = cnt.out])

\* dielectric_simple: bf, bound, continuum
SimpleParts ==
    /\ pc = "parts"
    /\ SimplePartsDone(
           band_filling_factor(loc.wbar, loc.Tbar, loc.mubar_e, loc.mubar_h),
           bound_contribution(loc.wbar, loc.g, loc.Gbar, args.nmax,
                              SimpleSqueeze),
           continuum_contribution(loc.wbar, loc.g, loc.Gbar, args.xnum,
                                  args.nmax, SimpleSqueeze))

\* while bf.ndim != bound.ndim: one pass of the body
SimpleLoop ==
    /\ pc = "loop"
    /\ Len(loc.bf.shape) # Len(loc.bound.shape)
    /\ LET new_shape == loc.bound.shape \o <<1>>
           cnt       == Reshape(loc.continuum, new_shape)
       IN  IF ~cnt.ok THEN Raise("ValueError")
           ELSE Goto("loop", [loc EXCEPT !.bound = Reshape(loc.bound, new_shape),
                                         !.continuum = cnt])

\* out = pre * bf * (bound + continuum); return out
SimpleReturn ==
    /\ pc = "loop"
    /\ Len(loc.bf.shape) = Len(loc.bound.shape)
    /\ LET out == Map2(Join2, Map2(Join2, loc.pre, loc.bf),
                       Map2(LAMBDA a, b : Re(Unk, a.p \cup b.p),
                            loc.bound, loc.continuum))
       IN  IF ~out.ok THEN Raise("ValueError")
           ELSE /\ ret' = out
                /\ pc' = IF call = "e_BK_broadcasted" THEN "bk_return"
                                                      ELSE "done"
                /\ UNCHANGED <<call, args, loc, err>>

\* e_BK_broadcasted: np.squeeze(epsilon_samp) if squeeze
BKReturn ==
    /\ pc = "bk_return"
    /\ ret' = IF args.squeeze THEN Squeeze(ret) ELSE ret
    /\ pc' = "done"
    /\ UNCHANGED <<call, args, loc, err>>

\* dielectric_microscopic: g, ER and the Mott check
MicroReduce ==
    /\ pc = "micro"
    /\ LET g == g_from_ak(args.a0, args.k)
       IN  IF mott_transition(g) THEN Raise("Mott")
           ELSE Goto("micro_units",
                     [loc EXCEPT !.g = g,
                                 !.ER = ER_exciton(args.a0, args.m_star)])

\* dielectric_microscopic: Eg .. mubar_h
MicroUnits ==
    /\ pc = "micro_units"
    /\ LET Eg == Eg_from_g(args.Eg0, loc.ER, loc.g)
           l2 == [loc EXCEPT !.Gbar = G_to_Gbar(args.G, loc.ER),
                             !.Tbar = T_to_Tbar(args.T, loc.ER),
                             !.wbar = E_to_wbar(args.w, Eg, loc.ER),
                             !.pre = dielectric_prefactor(args.rcv, args.a0,
                                                          loc.ER),
                             !.mubar_e = mubar(args.mu_e, Eg, args.T),
                             !.mubar_h = mubar(args.mu_h, Eg, args.T)]
       IN  IF \E f \in {"Gbar", "Tbar", "wbar", "pre", "mubar_e", "mubar_h"} :
                 ~l2[f].ok
           THEN Raise("ValueError")
           ELSE Goto("micro_out", l2)

\* pre * r, when r was computed
Scaled(pre, r) ==
    IF r.err # "" THEN r ELSE Checked(Map2(Join2, pre, r.out))

MicroOutDone(r, bf) ==
    IF r.err # "" THEN Raise(r.err)
    ELSE /\ ret' = r.out
         /\ loc' = [loc EXCEPT !.bf = bf]
         /\ pc' = "done"
         /\ UNCHANGED <<call, args, err>>

\* dielectric_microscopic: out = pre * reduced_dielectric(...); bf; return out
MicroOut ==
    /\ pc = "micro_out"
    /\ MicroOutDone(
           Scaled(loc.pre,
                  reduced_dielectric(loc.wbar, loc.g, loc.Gbar, loc.Tbar,
                                     loc.mubar_e, loc.mubar_h, args.xnum,
                                     args.nmax)),
           band_filling_factor(loc.wbar, loc.Tbar, loc.mubar_e, loc.mubar_h))

NextOrch ==
    \/ BKReshape
    \/ SimpleReduce
    \/ SimpleUnits
    \/ SimpleParts
    \/ SimpleLoop
    \/ SimpleReturn
    \/ BKReturn
    \/ MicroReduce
    \/ MicroUnits
    \/ MicroOut

SpecOrch == InitOrch /\ [][NextOrch]_vars

--------------------------------------------------------------------------
(* Buffers.  Every entry point as the sequence of its array statements:    *)
(* a statement makes a new array from its operands (arithmetic, np.sqrt,  *)
(* np.arange, np.repeat, a reduction), copies one (arr.copy()), shares    *)
(* the buffer of one (np.reshape, np.squeeze, indexing with None, a plain *)
(* assignment or return) or writes into one in place (x[mask] = v,        *)
(* x *= v).  A name that holds a number has no buffer.                    *)

Stmt(kind, tgt, srcs) == [kind |-> kind, tgt |-> tgt, srcs |-> srcs]

New(tgt, srcs) == Stmt("new", tgt, srcs)

Copy(tgt, src) == Stmt("copy", tgt, <<src>>)

Share(tgt, src) == Stmt("share", tgt, <<src>>)

InPlace(tgt, srcs) == Stmt("inplace", tgt, srcs)

\* argument = wbar; argument /= Tbar; ... in place of the new array.  With
\* it C8_CallerArraysUntouched fails.
band_filling_shared(wbar, Tbar, mubar_e, mubar_h, out) ==
    << Share("f.argument", wbar),
       InPlace("f.argument", <<Tbar, mubar_e, mubar_h>>),
       InPlace("f.argument", <<>>),
       New(out, <<"f.argument">>) >>

\* argument = wbar / Tbar - mubar_e - mubar_h; argument *= .5; np.tanh
band_filling_stmts(wbar, Tbar, mubar_e, mubar_h, out) ==
    << New("f.argument", <<wbar, Tbar, mubar_e, mubar_h>>),
       InPlace("f.argument", <<>>),
       New(out, <<"f.argument">>) >>

\* _checkndim_copy_reshape: arr.copy(), then np.reshape of the copy
copy_reshape_stmts(tgt, src) == << Copy(tgt, src), Share(tgt, tgt) >>

\* out = np.squeeze(out) if squeeze; return out
return_stmts(local, squeeze, out) ==
    (IF squeeze THEN << Share(local, local) >> ELSE << >>)
        \o << Share(out, local) >>

bound_stmts(w, g, G, squeeze, out) ==
    copy_reshape_stmts("b.w", w) \o copy_reshape_stmts("b.g", g)
        \o copy_reshape_stmts("b.G", G) \o
    << New("b.ell_base", <<"b.g">>),
       Share("b.ell_base", "b.ell_base"),
       New("b.ell", <<"b.ell_base", "b.g">>),
       New("b.f1", <<"b.g">>),
       New("b.mask", <<"b.f1", "b.ell">>),
       InPlace("b.ell", <<"b.mask">>),
       New("b.n", <<>>),
       Share("b.n", "b.n"),
       New("b.f4", <<"b.g", "b.ell", "b.n">>),
       InPlace("b.f4", <<>>),
       InPlace("b.f4", <<>>),
       New("b.out", <<"b.f4">>),
       New("b.f2", <<"b.w", "b.g", "b.G", "b.ell">>),
       New("b.f3", <<"b.ell">>),
       InPlace("b.f3", <<"b.ell">>),
       New("b.out", <<"b.out", "b.f2", "b.f3">>),
       New("b.out", <<"b.out">>) >>
        \o return_stmts("b.out", squeeze, out)

continuum_stmts(w, g, G, squeeze, out) ==
    copy_reshape_stmts("c.w", w) \o copy_reshape_stmts("c.g", g)
        \o copy_reshape_stmts("c.G", G) \o
    << New("c.x", <<>>),
       Share("c.x", "c.x"),
       New("c.n", <<>>),
       Share("c.n", "c.n"),
       New("c.coul_enhnc", <<"c.g", "c.n", "c.x">>),
       New("c.coul_enhnc", <<"c.coul_enhnc">>),
       New("c.arr", <<"c.x", "c.coul_enhnc", "c.w", "c.G">>),
       New("c.out", <<"c.arr">>) >>
        \o return_stmts("c.out", squeeze, out)

reduced_stmts(wbar, g, Gbar, Tbar, mubar_e, mubar_h, out) ==
    band_filling_stmts(wbar, Tbar, mubar_e, mubar_h, "r.bf")
        \o bound_stmts(wbar, g, Gbar, TRUE, "r.bound")
        \o continuum_stmts(wbar, g, Gbar, TRUE, "r.continuum")
        \o << New(out, <<"r.bf", "r.bound", "r.continuum">>) >>

microscopic_stmts(out) ==
    << New("m.g", <<"a0", "k">>),
       New("m.ER", <<"a0", "m_star">>),
       New("m.Eg", <<"Eg0", "m.ER", "m.g">>),
       New("m.Gbar", <<"G", "m.ER">>),
       New("m.Tbar", <<"T", "m.ER">>),
       New("m.wbar", <<"w", "m.Eg", "m.ER">>),
       New("m.pre", <<"rcv", "a0", "m.ER">>),
       New("m.mubar_e", <<"mu_e", "m.Eg", "T">>),
       New("m.mubar_h", <<"mu_h", "m.Eg", "T">>) >>
        \o reduced_stmts("m.wbar", "m.g", "m.Gbar", "m.Tbar", "m.mubar_e",
                         "m.mubar_h", "m.rd")
        \o << New("m.out", <<"m.pre", "m.rd">>) >>
        \o band_filling_stmts("m.wbar", "m.Tbar", "m.mubar_e", "m.mubar_h",
                              "m.bf")
        \o << Share(out, "m.out") >>

\* the body of the while loop of dielectric_simple, passes times
RECURSIVE loop_stmts(_)
loop_stmts(passes) ==
    IF passes = 0 THEN << >>
    ELSE << Share("s.bound", "s.bound"), Share("s.continuum", "s.continuum") >>
             \o loop_stmts(passes - 1)

simple_stmts(w, k, G, T, a0, Eg0, rcv, me_star, mh_star, passes, out) ==
    << New("s.g", <<a0, k>>),
       New("s.m_star", <<me_star, mh_star>>),
       New("s.ER", <<a0, "s.m_star">>),
       New("s.Eg", <<Eg0, "s.ER", "s.g">>),
       New("s.Gbar", <<G, "s.ER">>),
       New("s.Tbar", <<T, "s.ER">>),
       New("s.wbar", <<w, "s.Eg", "s.ER">>),
       New("s.pre", <<rcv, a0, "s.ER">>),
       New("s.n_nm", <<a0, k, T, "s.m_star">>),
       New("s.mu_e", <<"s.n_nm", me_star, T>>),
       New("s.mu_h", <<"s.n_nm", mh_star, T>>),
       New("s.mubar_e", <<"s.mu_e", "s.Eg", T>>),
       New("s.mubar_h", <<"s.mu_h", "s.Eg", T>>) >>
        \o band_filling_stmts("s.wbar", "s.Tbar", "s.mubar_e", "s.mubar_h",
                              "s.bf")
        \o bound_stmts("s.wbar", "s.g", "s.Gbar", TRUE, "s.bound")
        \o continuum_stmts("s.wbar", "s.g", "s.Gbar", TRUE, "s.continuum")
        \o loop_stmts(passes)
        \o << New("s.out", <<"s.pre", "s.bf", "s.bound", "s.continuum">>),
              Share(out, "s.out") >>

broadcasted_stmts(squeeze, passes, out) ==
    << Share("k.w", "w"),
       Share("k.k", "k"),
       Share("k.G", "G"),
       Share("k.T", "T"),
       New("k.a0", <<"a0">>),
       New("k.Eg0", <<"Eg0">>),
       New("k.rcv", <<"rcv">>),
       New("k.me_star", <<"me_star">>),
       New("k.mh_star", <<"mh_star">>) >>
        \o simple_stmts("k.w", "k.k", "k.G", "k.T", "k.a0", "k.Eg0", "k.rcv",
                        "k.me_star", "k.mh_star", passes, "k.epsilon_samp")
        \o return_stmts("k.epsilon_samp", squeeze, out)

EntryPoints ==
    {"bound_contribution", "continuum_contribution", "band_filling_factor",
     "reduced_dielectric", "dielectric_microscopic", "dielectric_simple",
     "e_BK_broadcasted"}

\* the parameters of an entry point that may be arrays
ArrayParams(c) ==
    CASE c \in {"bound_contribution", "continuum_contribution"} ->
             <<"w", "g", "G">>
      [] c = "band_filling_factor" -> <<"wbar", "Tbar", "mubar_e", "mubar_h">>
      [] c = "reduced_dielectric" ->
             <<"wbar", "g", "Gbar", "Tbar", "mubar_e", "mubar_h">>
      [] c = "dielectric_microscopic" -> <<"w", "G", "k", "T", "mu_e", "mu_h">>
      [] OTHER -> <<"w", "k", "G", "T">>

Program(c, squeeze, passes) ==
    CASE c = "bound_contribution" -> bound_stmts("w", "g", "G", squeeze, "out")
      [] c = "continuum_contribution" ->
             continuum_stmts("w", "g", "G", squeeze, "out")
      [] c = "band_filling_factor" ->
             band_filling_stmts("wbar", "Tbar", "mubar_e", "mubar_h", "out")
      [] c = "reduced_dielectric" ->
             reduced_stmts("wbar", "g", "Gbar", "Tbar", "mubar_e", "mubar_h",
                           "out")
      [] c = "dielectric_microscopic" -> microscopic_stmts("out")
      [] c = "dielectric_simple" ->
             simple_stmts("w", "k", "G", "T", "a0", "Eg0", "rcv", "me_star",
                          "mh_star", passes, "out")
      [] c = "e_BK_broadcasted" -> broadcasted_stmts(squeeze, passes, "out")

\* the content of buffer b of the caller when the call is made
InputNode(b) == [kind |-> "input", at |-> b, ops |-> <<>>, old |-> 0]

\* the names a program mentions
NamesOf(prog) ==
    {prog[i].tgt : i \in 1..Len(prog)}
        \cup UNION {{prog[i].srcs[j] : j \in 1..Len(prog[i].srcs)} :
                       i \in 1..Len(prog)}

\* the passes of the while loop of dielectric_simple range over 0..MaxPasses
MaxPasses == 2

\* the buffer of the array the caller passes for parameter number j: the
\* parameters in same are one array, every other parameter is its own
BufOf(j, params, same) == IF params[j] \in same THEN 1 ELSE j + 1

\* the frame of a call: the array parameters bound to the caller's buffers
Frame(prog, arrays) ==
    [nm \in NamesOf(prog) \cup DOMAIN arrays |->
        IF nm \in DOMAIN arrays THEN arrays[nm] ELSE 0]

InitAlias ==
    \E c \in EntryPoints, sq \in BOOLEAN, passes \in 0..MaxPasses :
    \E same \in SUBSET {ArrayParams(c)[j] : j \in 1..Len(ArrayParams(c))} :
        /\ (c \notin {"dielectric_simple", "e_BK_broadcasted"} => passes = 0)
        /\ (c \in {"band_filling_factor", "reduced_dielectric",
                   "dielectric_microscopic", "dielectric_simple"} => ~sq)
        /\ call = c
        /\ pc = "run"
        /\ args = [arrays |-> [nm \in {ArrayParams(c)[j] :
                                          j \in 1..Len(ArrayParams(c))} |->
                                 BufOf(CHOOSE j \in 1..Len(ArrayParams(c)) :
                                           ArrayParams(c)[j] = nm,
                                       ArrayParams(c), same)],
                   squeeze |-> sq, passes |-> passes]
        /\ loc = [prog  |-> Program(c, sq, passes),
                  ip    |-> 1,
                  env   |-> Frame(Program(c, sq, passes), args.arrays),
                  \* buffer b of the caller holds the content InputNode(b)
                  heap  |-> [b \in 1..(Len(ArrayParams(c)) + 1) |-> b],
                  terms |-> [b \in 1..(Len(ArrayParams(c)) + 1) |-> InputNode(b)],
                  calls |-> 1,
                  first |-> 0]
        /\ ret = 0
        /\ err = ""

\* the content of the array a name holds; 0 for a number
ContentOf(nm) == IF loc.env[nm] = 0 THEN 0 ELSE loc.heap[loc.env[nm]]

\* the content a statement computes: the statement, its operands' contents
\* and, for a write in place, the content it overwrites
Node(st) ==
    [kind |-> st.kind, at |-> loc.ip,
     ops |-> [j \in 1..Len(st.srcs) |-> ContentOf(st.srcs[j])],
     old |-> IF st.kind = "inplace" THEN ContentOf(st.tgt) ELSE 0]

\* contents are numbered in the order they first occur
Interned(terms, node) ==
    IF \E t \in 1..Len(terms) : terms[t] = node THEN terms
    ELSE Append(terms, node)

IdOf(terms, node) == CHOOSE t \in 1..Len(terms) : terms[t] = node

Running == pc = "run" /\ loc.ip <= Len(loc.prog)

Advance(l) ==
    /\ loc' = [l EXCEPT !.ip = loc.ip + 1]
    /\ UNCHANGED <<call, pc, args, ret, err>>

\* a new array in a new buffer
StepNew ==
    /\ Running
    /\ loc.prog[loc.ip].kind = "new"
    /\ Advance([loc EXCEPT
           !.terms = Interned(loc.terms, Node(loc.prog[loc.ip])),
           !.heap = Append(loc.heap,
                           IdOf(Interned(loc.terms, Node(loc.prog[loc.ip])),
                                Node(loc.prog[loc.ip]))),
           !.env[loc.prog[loc.ip].tgt] = Len(loc.heap) + 1])

\* arr.copy(): the same content in a new buffer
StepCopy ==
    /\ Running
    /\ loc.prog[loc.ip].kind = "copy"
    /\ Advance([loc EXCEPT
           !.heap = Append(loc.heap, ContentOf(loc.prog[loc.ip].srcs[1])),
           !.env[loc.prog[loc.ip].tgt] =
               IF loc.env[loc.prog[loc.ip].srcs[1]] = 0 THEN 0
               ELSE Len(loc.heap) + 1])

\* a view, or another name, of the same buffer
StepShare ==
    /\ Running
    /\ loc.prog[loc.ip].kind = "share"
    /\ Advance([loc EXCEPT
           !.env[loc.prog[loc.ip].tgt] = loc.env[loc.prog[loc.ip].srcs[1]]])

\* a write into the buffer the target name holds
StepInPlace ==
    /\ Running
    /\ loc.prog[loc.ip].kind = "inplace"
    /\ loc.env[loc.prog[loc.ip].tgt] # 0
    /\ Advance([loc EXCEPT
           !.terms = Interned(loc.terms, Node(loc.prog[loc.ip])),
           !.heap[loc.env[loc.prog[loc.ip].tgt]] =
               IdOf(Interned(loc.terms, Node(loc.prog[loc.ip])),
                    Node(loc.prog[loc.ip]))])

\* the call returns the array bound to out
AliasReturn ==
    /\ pc = "run"
    /\ loc.ip > Len(loc.prog)
    /\ pc' = "done"
    /\ ret' = ContentOf("out")
    /\ UNCHANGED <<call, args, loc, err>>

\* the caller calls again with the same arguments
CallAgain ==
    /\ pc = "done"
    /\ loc.calls = 1
    /\ pc' = "run"
    /\ ret' = 0
    /\ loc' = [loc EXCEPT !.ip = 1,
                          !.env = Frame(loc.prog, args.arrays),
                          !.calls = 2,
                          !.first = ret]
    /\ UNCHANGED <<call, args, err>>

NextAlias ==
    \/ StepNew
    \/ StepCopy
    \/ StepShare
    \/ StepInPlace
    \/ AliasReturn
    \/ CallAgain

SpecAlias == InitAlias /\ [][NextAlias]_vars

--------------------------------------------------------------------------
(* n_cubic_nm_from_ak on numbers.  A quantity is a rational times powers   *)
(* of ten, of np.pi and of the module constants kb_J, hbar_Js and m_e, so *)
(* that the unit conversions and the constants stay exact.                 *)

Qty(q, ten, kb, hbar, me, pie) ==
    [q |-> q, ten |-> ten, kb |-> kb, hbar |-> hbar, me |-> me, pie |-> pie]

\* a plain number
Num(x) == Qty(I(x), 0, 0, 0, 0, 0)

\* 1e9, 1e-27, ...
Ten(e) == Qty(I(1), e, 0, 0, 0, 0)

kb_J == Qty(I(1), 0, 1, 0, 0, 0)

hbar_Js == Qty(I(1), 0, 0, 1, 0, 0)

m_e == Qty(I(1), 0, 0, 0, 1, 0)

NpPi == Qty(I(1), 0, 0, 0, 0, 1)

QMul(a, b) ==
    Qty(RMul(a.q, b.q), a.ten + b.ten, a.kb + b.kb, a.hbar + b.hbar,
        a.me + b.me, a.pie + b.pie)

QDiv(a, b) ==
    Qty(RDiv(a.q, b.q), a.ten - b.ten, a.kb - b.kb, a.hbar - b.hbar,
        a.me - b.me, a.pie - b.pie)

QSq(a) == QMul(a, a)

\* k_invm = k * 1e9
k_invm(k) == QMul(k, Ten(9))

\* a0 * 1e9 in place of a0 / 1e9.  With it C5_WithBohrRadius fails.
a0_m_times(a0) == QMul(a0, Ten(9))

\* a0_m = a0 / 1e9
a0_m(a0) == QDiv(a0, Ten(9))

\* mr_kg = mr_star * m_e
mr_kg(mr_star) == QMul(mr_star, m_e)

\* k_invm ** 2 * kb_J * T * mr_kg * a0_m / (4 * np.pi * hbar_Js ** 2)
out_invm3(kinv, T, mr, a0m) ==
    QDiv(QMul(QMul(QMul(QMul(QSq(kinv), kb_J), T), mr), a0m),
         QMul(QMul(Num(4), NpPi), QSq(hbar_Js)))

\* return out_invm3 * 1e-27
to_nm3(out) == QMul(out, Ten(-27))

\* a0, k, T and mr_star range over 1..MaxQ
MaxQ == 3

InitDensity ==
    \E a0 \in 1..MaxQ, k \in 1..MaxQ, T \in 1..MaxQ, mr \in 1..MaxQ :
        /\ call = "n_cubic_nm_from_ak"
        /\ pc = "start"
        /\ args = [a0 |-> Num(a0), k |-> Num(k), T |-> Num(T),
                   mr_star |-> Num(mr)]
        /\ loc = [k_invm |-> Num(0), a0_m |-> Num(0), mr_kg |-> Num(0),
                  out_invm3 |-> Num(0)]
        /\ ret = Num(0)
        /\ err = ""

\* the three conversions to SI units
DensityUnits ==
    /\ call = "n_cubic_nm_from_ak"
    /\ pc = "start"
    /\ pc' = "si"
    /\ loc' = [loc EXCEPT !.k_invm = k_invm(args.k),
                          !.a0_m = a0_m(args.a0),
                          !.mr_kg = mr_kg(args.mr_star)]
    /\ UNCHANGED <<call, args, ret, err>>

DensityOut ==
    /\ call = "n_cubic_nm_from_ak"
    /\ pc = "si"
    /\ pc' = "out"
    /\ loc' = [loc EXCEPT !.out_invm3 =
                   out_invm3(loc.k_invm, args.T, loc.mr_kg, loc.a0_m)]
    /\ UNCHANGED <<call, args, ret, err>>

DensityReturn ==
    /\ call = "n_cubic_nm_from_ak"
    /\ pc = "out"
    /\ pc' = "done"
    /\ ret' = to_nm3(loc.out_invm3)
    /\ UNCHANGED <<call, args, loc, err>>

NextDensity ==
    \/ DensityUnits
    \/ DensityOut
    \/ DensityReturn

SpecDensity == InitDensity /\ [][NextDensity]_vars

--------------------------------------------------------------------------
(* Properties of bound_contribution and continuum_contribution.            *)

BoundDone == call = "bound_contribution" /\ pc = "done"

\* the caller's arrays as bound_contribution reshapes them
W6 == ExpandTail(args.w, 2)
G6 == ExpandTail(args.G, 2)
g6 == ExpandTail(args.g, 2)

\* the 1-based position of the ell axis in the local arrays
EllAxis == Len(args.w.shape) + 1

\* the product over n = 1..m of the factors f4 keeps for one g and one ell
RECURSIVE KeptProduct(_, _, _)
KeptProduct(g, ell, m) ==
    IF m = 0 THEN I(1)
    ELSE RMul(KeptProduct(g, ell, m - 1),
              IF f4(g, ell, IntEl(m)).v.t = "nan" THEN I(1)
              ELSE f4(g, ell, IntEl(m)).v)

\* the term index ell adds to the ladder sum of one grid element
LadderTerm(w, g, G, ell, nmax) ==
    CMul(CFromR(KeptProduct(g, IntEl(ell), nmax)), f2(w, g, G, IntEl(ell)).c)

RECURSIVE LadderSum(_, _, _, _, _)
LadderSum(w, g, G, upto, nmax) ==
    IF upto = 0 THEN CFromR(I(0))
    ELSE CAdd(LadderSum(w, g, G, upto - 1, nmax),
              LadderTerm(w, g, G, upto, nmax))

\* the index of np.nansum's result that index j of the returned array holds
RetIndex(j) ==
    IF args.squeeze THEN Unsq(j, KeepDims(loc.summand.shape, EllAxis)) ELSE j

\* C4: in the product over n, a factor(n, l) of a surviving index l >= 1 is
\* replaced by the multiplicative identity if and only if n = l, and a
\* factor with n # l is left as computed.
C4_MaskedIffDegenerate ==
    BoundDone =>
        \A i \in Idx(loc.fac.shape) :
            LET l == At(loc.ell, i).v.n
                n == i[Len(i)]
            IN  l >= 1 =>
                  /\ (loc.fac.val[i].v.t = "nan") <=> (n = l)
                  /\ n # l =>
                       loc.fac.val[i].v = f4raw(At(g6, i), IntEl(l), IntEl(n)).v

\* C6: for w, g, G of equal ndim and broadcast-compatible shapes both
\* functions succeed, and with squeeze=False the leading axes of the result
\* have the broadcast shape of w, g and G.
C6_BroadcastsAnyGrid ==
    (call \in {"bound_contribution", "continuum_contribution"} /\ pc # "start")
        => /\ pc = "done"
           /\ ~args.squeeze =>
                SubSeq(ret.shape, 1, Len(args.w.shape))
                    = BShape(BShape(args.w.shape, args.g.shape), args.G.shape)

\* C7: every element of the array bound_contribution returns is finite.
C7_ResultFinite ==
    BoundDone => \A j \in Idx(ret.shape) : CIsFinite(ret.val[j].c)

\* a grid with a degenerate pair n = l, a zeroed index and elements whose
\* floor(sqrt(g)) differ
C7_Witness ==
    /\ BoundDone
    /\ \E i \in Idx(loc.fac.shape) :
          At(loc.ell, i).v.n = i[Len(i)] /\ loc.fac.val[i].v.t = "nan"
    /\ \E i \in Idx(loc.ell.shape) : IsZero(loc.ell.val[i].v)
    /\ \E i, k \in Idx(args.g.shape) :
          FloorSqrt(args.g.val[i].v) # FloorSqrt(args.g.val[k].v)

\* C9: for each grid element, index l adds its term to the ladder sum when
\* l <= floor(sqrt(g)) of that element and adds exactly zero (a nan that
\* np.nansum drops) when l is larger, so the element of the result is the sum
\* of the terms l = 1..floor(sqrt(g)).
C9_LadderIndices ==
    BoundDone =>
        /\ \A i \in Idx(loc.summand.shape) :
              LET l  == i[EllAxis]
                  fs == FloorSqrt(At(g6, i).v)
              IN  IF l <= fs
                  THEN /\ At(loc.ell, i).v = I(l)
                       /\ loc.summand.val[i].c
                            = LadderTerm(At(W6, i), At(g6, i), At(G6, i), l,
                                         args.nmax)
                  ELSE /\ At(loc.ell, i).v = I(0)
                       /\ CIsNaN(loc.summand.val[i].c)
        /\ \A j \in Idx(ret.shape) :
              ret.val[j].c
                = LadderSum(At(W6, RetIndex(j)), At(g6, RetIndex(j)),
                            At(G6, RetIndex(j)),
                            FloorSqrt(At(g6, RetIndex(j)).v), args.nmax)

\* a grid where one element keeps only l = 1 (g = 1) and another keeps more
C9_Witness ==
    /\ BoundDone
    /\ \E i \in Idx(args.g.shape) : args.g.val[i].v = I(1)
    /\ \E i \in Idx(args.g.shape) : FloorSqrt(args.g.val[i].v) > 1
    /\ \E i \in Idx(loc.summand.shape) : CIsNaN(loc.summand.val[i].c)

--------------------------------------------------------------------------
(* Properties of dielectric_microscopic, dielectric_simple and             *)
(* e_BK_broadcasted.                                                       *)

OrchCall ==
    call \in {"dielectric_microscopic", "dielectric_simple", "e_BK_broadcasted"}

\* g = 12 / (pi^2 * a0 * k) of the caller's grid element j
gOf(j) == RDiv(I(12), RMul(args.a0.val[<<>>].v, args.k.val[j].v))

SomeBelowOne == \E j \in Idx(args.k.shape) : RLt(gOf(j), I(1))

\* the call has finished, by a return or by an exception
Finished == pc \in {"done", "raised"}

\* the numbers of the caller every element of the result is computed from
ParamSources ==
    IF call = "dielectric_microscopic"
    THEN {<<nm, <<>>>> : nm \in {"a0", "Eg0", "rcv", "m_star", "mu_e", "mu_h"}}
    ELSE {<<nm, <<>>>> : nm \in {"a0", "Eg0", "rcv", "me_star", "mh_star"}}

\* C1: once the check has run, the Mott exception has been raised if and only
\* if some element of g over the whole grid is below 1 (g = 1 passes), and a
\* call that raised it has computed no band-filling, bound or continuum array
\* and returns nothing.
C1_MottIffBelowOne ==
    (OrchCall /\ pc \notin {"start", "simple", "micro"}) =>
        /\ (err = "Mott") <=> SomeBelowOne
        /\ SomeBelowOne =>
             /\ pc = "raised"
             /\ ret = Bad
             /\ loc.wbar = Bad
             /\ loc.bf = Bad
             /\ loc.bound = Bad
             /\ loc.continuum = Bad

\* a grid whose first element has g >= 1 and a later one g < 1, rejected
C1_Witness ==
    /\ OrchCall
    /\ pc = "raised"
    /\ err = "Mott"
    /\ \E j \in Idx(args.k.shape) :
          /\ Flat(j, args.k.shape) = 0
          /\ ~RLt(gOf(j), I(1))

\* C2: with squeeze=False and g >= 1 everywhere, e_BK_broadcasted returns an
\* array of shape (W, K, NG, NT) whose element [i1, i2, i3, i4] is computed
\* from w[i1], k[i2], G[i3] and T[i4].
C2_OrthogonalAxes ==
    (call = "e_BK_broadcasted" /\ ~args.squeeze /\ ~SomeBelowOne /\ Finished)
        => /\ pc = "done"
           /\ ret.shape = <<args.w.shape[1], args.k.shape[1],
                            args.G.shape[1], args.T.shape[1]>>
           /\ \A i \in Idx(ret.shape) :
                 ret.val[i].p = {<<"w", <<i[1]>>>>, <<"k", <<i[2]>>>>,
                                 <<"G", <<i[3]>>>>, <<"T", <<i[4]>>>>}
                                \cup ParamSources

\* C3: for inputs of equal ndim, broadcast-compatible shapes and g >= 1
\* everywhere, dielectric_microscopic returns an array of the broadcast shape
\* of w, k, G and T whose element at index i is computed from the elements of
\* w, k, G and T at that index.
C3_MicroscopicShape ==
    (call = "dielectric_microscopic" /\ ~SomeBelowOne /\ Finished)
        => /\ pc = "done"
           /\ ret.shape = BShape(BShape(BShape(args.w.shape, args.k.shape),
                                        args.G.shape), args.T.shape)
           /\ \A i \in Idx(ret.shape) :
                 ret.val[i].p = {<<nm, Pr(i, args[nm].shape)>> :
                                     nm \in {"w", "k", "G", "T"}}
                                \cup ParamSources

InLoop == pc = "loop"

\* C10: whenever control is at the while loop of dielectric_simple, bound has
\* at most the ndim of bf and the shape of continuum; every pass of the body
\* raises bound.ndim by exactly one and leaves bf alone, so the distance
\* bf.ndim - bound.ndim falls to zero; and the loop is left, without an
\* exception, exactly when it is zero.
C10_LoopTerminates ==
    /\ [](InLoop => /\ Len(loc.bound.shape) <= Len(loc.bf.shape)
                    /\ loc.bound.shape = loc.continuum.shape)
    /\ [][InLoop =>
             \/ /\ InLoop'
                /\ Len(loc.bound.shape) < Len(loc.bf.shape)
                /\ Len(loc.bound.shape)' = Len(loc.bound.shape) + 1
                /\ loc.bf' = loc.bf
             \/ /\ pc' \in {"done", "bk_return"}
                /\ Len(loc.bound.shape) = Len(loc.bf.shape)]_vars

\* the loop has added axes up to the ndim of a bf that has the extra axis of
\* a temperature array of higher ndim than the grid
C10_Witness ==
    /\ call = "dielectric_simple"
    /\ InLoop
    /\ Len(args.T.shape) > Len(args.w.shape)
    /\ Len(loc.bound.shape) = Len(loc.bf.shape)
    /\ loc.bound.shape[Len(loc.bound.shape)] = 1
    /\ \E a \in 1..Len(loc.bound.shape) : loc.bound.shape[a] > 1

--------------------------------------------------------------------------
(* Properties of the buffers.                                              *)

\* C8: at every point of a call, and of a second call with the same
\* arguments, each buffer of the caller holds the content it was passed
\* with, and the second call returns what the first returned.
C8_CallerArraysUntouched ==
    call \in EntryPoints =>
        /\ \A nm \in DOMAIN args.arrays :
              loc.terms[loc.heap[args.arrays[nm]]]
                  = InputNode(args.arrays[nm])
        /\ (loc.calls = 2 /\ pc = "done") => ret = loc.first

\* a second call has returned; the callee held a view of a caller's buffer
\* and wrote in place into a buffer of its own
C8_Witness ==
    /\ call = "e_BK_broadcasted"
    /\ loc.calls = 2
    /\ pc = "done"
    /\ ret # 0
    /\ loc.env["k.w"] = args.arrays["w"]
    /\ \E b \in 1..Len(loc.heap) :
          /\ \A nm \in DOMAIN args.arrays : args.arrays[nm] # b
          /\ loc.terms[loc.heap[b]].kind = "inplace"

--------------------------------------------------------------------------
(* Properties of n_cubic_nm_from_ak.                                       *)

DensityDone == call = "n_cubic_nm_from_ak" /\ pc = "done"

\* k^2 * kB * T * mr / (4 * pi * hbar^2) with mr in units of m_e, up to the
\* power of ten of the unit conversions
BareDensity ==
    QDiv(QMul(QMul(QMul(QSq(args.k), kb_J), args.T), QMul(args.mr_star, m_e)),
         QMul(QMul(Num(4), NpPi), QSq(hbar_Js)))

\* C5 as stated: the returned density is k^2 * kB * T * mr / (4 * pi *
\* hbar^2) up to the unit conversions, whatever a0 is.
C5_NoBohrRadius ==
    DensityDone => [ret EXCEPT !.ten = 0] = BareDensity

\* C5, amended: the returned density is k^2 * kB * T * mr * a0 / (4 * pi *
\* hbar^2) times 1e-18, the product of the conversions of k^2 (1e18), of a0
\* (1e-9) and of the result (1e-27): it is proportional to k^2, T, mr and a0.
C5_WithBohrRadius ==
    DensityDone =>
        ret = QMul(QMul(BareDensity, args.a0), Ten(-18))

\* a density returned for an a0 other than 1 and a k other than 1
C5_Witness ==
    /\ DensityDone
    /\ args.a0 # Num(1)
    /\ args.k # Num(1)
    /\ ret.q # I(0)

==========================================================================
